---- MODULE Spec2Model ----
(***************************************************************************)
(* Model of backend/api/ai_services.py and backend/api/views.py:           *)
(*   - AIModelManager: the lazily loading model registry, with the         *)
(*     request threads that call get_model concurrently (Spec), and under  *)
(*     a fair scheduler (SpecFair);                                        *)
(*   - MultiModalAnalyzer, ConversationalAI, ContentGenerator and the      *)
(*     views that call them, one request at a time (SpecPipe, SpecTrigger, *)
(*     SpecSumm, SpecAnalyze).                                             *)
(*   - model_health_check and model_status reading the registry while a    *)
(*     thread loads                                                        *)
(*     (SpecHealth), and chat_message handled by several threads at once   *)
(*     (SpecChat).                                                         *)
(* Scores are kept in tenths (0.7 is 7), strings by their kind and their   *)
(* length in characters.                                                   *)
(***************************************************************************)
EXTENDS Integers, Sequences, FiniteSets, TLC

\* ------------------------------------------------------------------ bounds
\* request threads that share the one AIModelManager
NumThreads == 2
\* get_model calls issued in one run of Spec
MaxCalls == 3

\* --------------------------------------------------------------- constants
\* the seven names _load_model has a branch for
KnownModels == {"vision", "sentiment", "zero_shot", "generator", "summarizer",
                "embeddings", "toxicity"}
\* a name _load_model has no branch for
OtherName == "other"
ModelNames == KnownModels \cup {OtherName}
\* the names the threads of Spec ask for
RequestNames == {"vision", "generator", OtherName}

Threads == 1..NumThreads
NoThread == 0

\* values of self.models.get(name): "absent" is a missing key, "None" is a
\* stored None, the others are model instances
Absent == "absent"
PyNone == "None"
Instances == {"inst", "primary", "mock"}

VARIABLES
    models,         \* AIModelManager.models: name -> Absent, PyNone or an instance
    loaded_models,  \* AIModelManager._loaded_models
    loading_lock,   \* AIModelManager._loading_lock: the thread holding it, or NoThread
    pc,             \* per thread: where it is in get_model / _load_model
    req,            \* per thread: the model_name of its call
    ret,            \* per thread: what its call returned, "raise", or "nothing" (pending)
    issued,         \* per thread: the capability's state when the call was issued
    loadCount,      \* per name: times a thread entered the try block of _load_model
    calls,          \* get_model calls issued so far
    conversations,  \* ConversationalAI.conversations: session_id -> list of exchanges
    sessions,       \* ConversationSession rows: session_id -> message_count, context_summary
    chat_rows,      \* ChatMessage rows: session_id -> number of rows
    last,           \* the request handled last: its inputs, its result, what it called
    health,         \* the model_health_check request in progress: its reads so far
    view            \* per thread: the chat_message request it is handling

regVars == <<models, loaded_models, loading_lock, pc, req, ret, issued, loadCount, calls>>

pipeVars == <<conversations, sessions, chat_rows, last, health, view>>

vars == <<regVars, pipeVars>>

\* ------------------------------------------------------------ the registry
\* dict.get: a missing key reads as None
DictGet(m, n) == IF m[n] = Absent THEN PyNone ELSE m[n]

\* pcs of a thread that is inside the try block of _load_model
LoadingPcs == {"load", "vision_test", "vision_mock", "publish", "fail"}

\* the spec's capability state, read off the manager's fields
CapState(n) ==
    IF \E t \in Threads : req[t] = n /\ pc[t] \in LoadingPcs THEN "Loading"
    ELSE IF n \in loaded_models THEN "Ready"
    ELSE IF models[n] = PyNone THEN "Failed"
    ELSE "Unloaded"

RegInit ==
    /\ models = [n \in ModelNames |-> Absent]
    /\ loaded_models = {}
    /\ loading_lock = NoThread
    /\ pc = [t \in Threads |-> "idle"]
    /\ req = [t \in Threads |-> OtherName]
    /\ ret = [t \in Threads |-> "nothing"]
    /\ issued = [t \in Threads |-> "Unloaded"]
    /\ loadCount = [n \in ModelNames |-> 0]
    /\ calls = 0

\* a request thread calls get_model(n)
get_model_call(t, n) ==
    /\ pc[t] = "idle"
    /\ calls < MaxCalls
    /\ calls' = calls + 1
    /\ req' = [req EXCEPT ![t] = n]
    /\ issued' = [issued EXCEPT ![t] = CapState(n)]
    /\ ret' = [ret EXCEPT ![t] = "nothing"]
    /\ pc' = [pc EXCEPT ![t] = "get_check"]
    /\ UNCHANGED <<models, loaded_models, loading_lock, loadCount, pipeVars>>

\* get_model line 157 testing the stored instance for the loaded set
get_model_check_models(t) ==
    /\ pc[t] = "get_check"
    /\ pc' = [pc EXCEPT ![t] =
                IF DictGet(models, req[t]) # PyNone THEN "get_return" ELSE "load_check"]
    /\ UNCHANGED <<models, loaded_models, loading_lock, req, ret, issued, loadCount, calls, pipeVars>>

\* get_model line 157: if model_name not in self._loaded_models
get_model_check(t) ==
    /\ pc[t] = "get_check"
    /\ pc' = [pc EXCEPT ![t] =
                IF req[t] \in loaded_models THEN "get_return" ELSE "load_check"]
    /\ UNCHANGED <<models, loaded_models, loading_lock, req, ret, issued, loadCount, calls, pipeVars>>

\* _load_model line 27: the check without the lock
load_model_check(t) ==
    /\ pc[t] = "load_check"
    /\ pc' = [pc EXCEPT ![t] =
                IF req[t] \in loaded_models THEN "get_return" ELSE "acquire"]
    /\ UNCHANGED <<models, loaded_models, loading_lock, req, ret, issued, loadCount, calls, pipeVars>>

\* _load_model line 29 entering without waiting for the lock
load_model_acquire_unlocked(t) ==
    /\ pc[t] = "acquire"
    /\ loading_lock' = t
    /\ pc' = [pc EXCEPT ![t] = "recheck"]
    /\ UNCHANGED <<models, loaded_models, req, ret, issued, loadCount, calls, pipeVars>>

\* _load_model line 29: with self._loading_lock
load_model_acquire(t) ==
    /\ pc[t] = "acquire"
    /\ loading_lock = NoThread
    /\ loading_lock' = t
    /\ pc' = [pc EXCEPT ![t] = "recheck"]
    /\ UNCHANGED <<models, loaded_models, req, ret, issued, loadCount, calls, pipeVars>>

\* _load_model lines 30-33: the check under the lock; a miss enters the try block
load_model_recheck(t) ==
    /\ pc[t] = "recheck"
    /\ IF req[t] \in loaded_models
       THEN /\ loading_lock' = NoThread
            /\ pc' = [pc EXCEPT ![t] = "get_return"]
            /\ UNCHANGED loadCount
       ELSE /\ loadCount' = [loadCount EXCEPT ![req[t]] = @ + 1]
            /\ pc' = [pc EXCEPT ![t] = "load"]
            /\ UNCHANGED loading_lock
    /\ UNCHANGED <<models, loaded_models, req, ret, issued, calls, pipeVars>>

\* _load_model lines 37-135: the branch of the name. ok is whether the
\* pipeline(...) / SentenceTransformer(...) constructors give an instance (for
\* sentiment and toxicity: the first or the fallback one); the vision branch
\* stores its first instance before testing it, a name without a branch
\* stores nothing.
load_model_branch(t, ok) ==
    /\ pc[t] = "load"
    /\ IF req[t] = "vision"
       THEN IF ok
            THEN /\ models' = [models EXCEPT !["vision"] = "primary"]
                 /\ pc' = [pc EXCEPT ![t] = "vision_test"]
            ELSE /\ pc' = [pc EXCEPT ![t] = "vision_mock"]
                 /\ UNCHANGED models
       ELSE IF req[t] \in KnownModels
            THEN IF ok
                 THEN /\ models' = [models EXCEPT ![req[t]] = "inst"]
                      /\ pc' = [pc EXCEPT ![t] = "publish"]
                 ELSE /\ pc' = [pc EXCEPT ![t] = "fail"]
                      /\ UNCHANGED models
            ELSE /\ ok
                 /\ pc' = [pc EXCEPT ![t] = "publish"]
                 /\ UNCHANGED models
    /\ UNCHANGED <<loaded_models, loading_lock, req, ret, issued, loadCount, calls, pipeVars>>

\* _load_model lines 47-53: the self test of the stored vision pipeline
load_vision_test(t, ok) ==
    /\ pc[t] = "vision_test"
    /\ pc' = [pc EXCEPT ![t] = IF ok THEN "publish" ELSE "vision_mock"]
    /\ UNCHANGED <<models, loaded_models, loading_lock, req, ret, issued, loadCount, calls, pipeVars>>

\* _load_model lines 53-66: the fallback to MockVisionModel
load_vision_mock(t) ==
    /\ pc[t] = "vision_mock"
    /\ models' = [models EXCEPT !["vision"] = "mock"]
    /\ pc' = [pc EXCEPT ![t] = "publish"]
    /\ UNCHANGED <<loaded_models, loading_lock, req, ret, issued, loadCount, calls, pipeVars>>

\* _load_model lines 137-139 and the end of the with block
load_model_publish(t) ==
    /\ pc[t] = "publish"
    /\ loaded_models' = loaded_models \cup {req[t]}
    /\ loading_lock' = NoThread
    /\ pc' = [pc EXCEPT ![t] = "get_return"]
    /\ UNCHANGED <<models, req, ret, issued, loadCount, calls, pipeVars>>

\* lines 141-149 raising without leaving the with block
load_model_fail_locked(t) ==
    /\ pc[t] = "fail"
    /\ models' = [models EXCEPT ![req[t]] = PyNone]
    /\ ret' = [ret EXCEPT ![t] = "raise"]
    /\ pc' = [pc EXCEPT ![t] = "idle"]
    /\ UNCHANGED <<loaded_models, loading_lock, req, issued, loadCount, calls, pipeVars>>

\* _load_model lines 141-149: store None, leave the with block, raise through
\* get_model to the caller
load_model_fail(t) ==
    /\ pc[t] = "fail"
    /\ models' = [models EXCEPT ![req[t]] = PyNone]
    /\ loading_lock' = NoThread
    /\ ret' = [ret EXCEPT ![t] = "raise"]
    /\ pc' = [pc EXCEPT ![t] = "idle"]
    /\ UNCHANGED <<loaded_models, req, issued, loadCount, calls, pipeVars>>

\* get_model line 159: return self.models.get(model_name)
get_model_return(t) ==
    /\ pc[t] = "get_return"
    /\ ret' = [ret EXCEPT ![t] = DictGet(models, req[t])]
    /\ pc' = [pc EXCEPT ![t] = "idle"]
    /\ UNCHANGED <<models, loaded_models, loading_lock, req, issued, loadCount, calls, pipeVars>>

\* --------------------------------------------------- values of the pipelines
\* a classifier's label and score, the score in tenths
Cls(label, score) == [label |-> label, score |-> score]
\* ai_services.py lines 248, 304 and 380
DefaultSentiment == Cls("NEUTRAL", 5)
\* ai_services.py lines 256, 305 and 386
DefaultToxicity == Cls("NON_TOXIC", 1)
\* no classification was obtained
NoCls == Cls("none", 0)

\* a string: what it is and how many characters it has
Str(kind, len) == [kind |-> kind, len |-> len]
\* line 263: the fixed refusal
RefusalLen == 80
Refusal == Str("refusal", RefusalLen)
\* line 280: f"I understand you said: {message}. How can I help you further?"
EchoPrefixLen == 23
EchoSuffixLen == 29
Echo(msg) == Str("echo", EchoPrefixLen + msg.len + EchoSuffixLen)
\* line 303: f"I encountered an error processing your message: {str(e)}"
ErrorPrefixLen == 48
ErrorResponse(exc) == Str("error", ErrorPrefixLen + exc)
\* line 278: the generated text after the prompt
Generated(len) == Str("generated", len)

\* line 262: the threshold of chat, 0.7
ChatThreshold == 7
\* lines 354 and 393: the threshold of generate_safe_content, 0.5
GenThreshold == 5
\* views.py line 197: every 20 messages
SummarizeEvery == 20
\* line 315: only summarize if enough content
MinExchanges == 5
\* line 320: the last 10 exchanges
LastExchanges == 10
\* line 323: only summarize long conversations
MinTranscript == 1000
\* line 321: "Human: ", "\nAssistant: " and "\n"
ExchangeOverhead == 20
\* lines 188 and views.py line 92: the top predictions kept
TopPredictions == 3

\* what a request meets: the loads and the calls that raise in it
LoadOk(env, n) == <<"load", n>> \notin env.faults
CallOk(env, n) == <<"call", n>> \notin env.faults

\* ------------------------------------------- get_model run by one thread alone
\* the manager's fields as a request threads them through its calls, with the
\* loads and calls it made so far and the result of the last get_model
Ctx(m, l) == [models |-> m, loaded |-> l, trace |-> <<>>, res |-> PyNone]

\* get_model lines 155-159 with _load_model lines 25-149, the lock being free
GetModel(c, n, ok) ==
    IF n \in c.loaded
    THEN [c EXCEPT !.res = DictGet(c.models, n)]
    ELSE IF n = "vision"
    THEN LET inst == IF ok THEN "primary" ELSE "mock" IN
         [models |-> [c.models EXCEPT ![n] = inst],
          loaded |-> c.loaded \cup {n},
          trace |-> Append(c.trace, <<"load", n>>),
          res |-> inst]
    ELSE IF n \in KnownModels
    THEN IF ok
         THEN [models |-> [c.models EXCEPT ![n] = "inst"],
               loaded |-> c.loaded \cup {n},
               trace |-> Append(c.trace, <<"load", n>>),
               res |-> "inst"]
         ELSE [models |-> [c.models EXCEPT ![n] = PyNone],
               loaded |-> c.loaded,
               trace |-> Append(c.trace, <<"load_failed", n>>),
               res |-> "raise"]
    ELSE [models |-> c.models,
          loaded |-> c.loaded \cup {n},
          trace |-> Append(c.trace, <<"load", n>>),
          res |-> DictGet(c.models, n)]

\* `if model:` on what get_model returned
Truthy(res) == res \in Instances

\* the request calls the model it got
Call(c, n) == [c EXCEPT !.trace = Append(@, <<"call", n>>)]

\* the events of a trace
Events(trace) == {trace[i] : i \in 1..Len(trace)}

\* how many times the trace has the event
CountEvents(trace, e) == Cardinality({i \in 1..Len(trace) : trace[i] = e})

\* the models whose call raised in the request: they were called and the call
\* met its fault (for the toxicity model, at its first or at its second call)
InvokeRaised(trace, env) ==
    {n \in KnownModels :
        /\ <<"call", n>> \in Events(trace)
        /\ \/ ~CallOk(env, n)
           \/ /\ n = "toxicity"
              /\ ~CallOk(env, "toxicity_output")
              /\ CountEvents(trace, <<"call", "toxicity">>) = 2}

\* -------------------------------------------------------- ConversationalAI
\* the except branch answering without the default sentiment and toxicity
ChatError_no_defaults(c, conv, env) ==
    [ctx |-> c, conversations |-> conv, error |-> TRUE,
     response |-> ErrorResponse(env.exc),
     sentiment |-> NoCls, toxicity_check |-> NoCls]

\* chat lines 300-307: the except branch
ChatError(c, conv, env) ==
    [ctx |-> c, conversations |-> conv, error |-> TRUE,
     response |-> ErrorResponse(env.exc),
     sentiment |-> DefaultSentiment, toxicity_check |-> DefaultToxicity]

\* chat lines 282-298: store the exchange and return
ChatStore(c, conv, sid, msg, response, sentiment, toxicity) ==
    [ctx |-> c,
     conversations |->
        IF sid \in DOMAIN conv
        THEN [conv EXCEPT ![sid] = Append(@, [message |-> msg, response |-> response])]
        ELSE (sid :> <<[message |-> msg, response |-> response]>>) @@ conv,
     error |-> FALSE,
     response |-> response,
     sentiment |-> sentiment, toxicity_check |-> toxicity]

\* the comparison of line 262 with >= for >
ChatBlocked_at_threshold(toxicity) ==
    toxicity.label = "TOXIC" /\ toxicity.score >= ChatThreshold

\* chat line 262
ChatBlocked(toxicity) ==
    toxicity.label = "TOXIC" /\ toxicity.score > ChatThreshold

\* lines 262-280 asking for the generator before looking at the toxicity
ChatRespond_generator_first(c, conv, sid, msg, env, sentiment, toxicity) ==
    LET g == GetModel(c, "generator", LoadOk(env, "generator")) IN
    IF g.res = "raise" THEN ChatError(g, conv, env)
    ELSE IF ChatBlocked(toxicity)
    THEN ChatStore(g, conv, sid, msg, Refusal, sentiment, toxicity)
    ELSE IF Truthy(g.res)
    THEN IF CallOk(env, "generator")
         THEN ChatStore(Call(g, "generator"), conv, sid, msg,
                        Generated(env.generated), sentiment, toxicity)
         ELSE ChatError(Call(g, "generator"), conv, env)
    ELSE ChatStore(g, conv, sid, msg, Echo(msg), sentiment, toxicity)

\* chat lines 262-280: the refusal, the generated reply or the echo
ChatRespond(c, conv, sid, msg, env, sentiment, toxicity) ==
    IF ChatBlocked(toxicity)
    THEN ChatStore(c, conv, sid, msg, Refusal, sentiment, toxicity)
    ELSE LET g == GetModel(c, "generator", LoadOk(env, "generator")) IN
         IF g.res = "raise" THEN ChatError(g, conv, env)
         ELSE IF Truthy(g.res)
         THEN IF CallOk(env, "generator")
              THEN ChatStore(Call(g, "generator"), conv, sid, msg,
                             Generated(env.generated), sentiment, toxicity)
              ELSE ChatError(Call(g, "generator"), conv, env)
         ELSE ChatStore(g, conv, sid, msg, Echo(msg), sentiment, toxicity)

\* chat lines 254-260: the toxicity check
ChatToxicity(c, conv, sid, msg, env, sentiment) ==
    LET t == GetModel(c, "toxicity", LoadOk(env, "toxicity")) IN
    IF t.res = "raise" THEN ChatError(t, conv, env)
    ELSE IF Truthy(t.res)
    THEN IF CallOk(env, "toxicity")
         THEN ChatRespond(Call(t, "toxicity"), conv, sid, msg, env, sentiment,
                          IF env.toxicity = NoCls THEN DefaultToxicity ELSE env.toxicity)
         ELSE ChatError(Call(t, "toxicity"), conv, env)
    ELSE ChatRespond(t, conv, sid, msg, env, sentiment, DefaultToxicity)

\* ConversationalAI.chat, lines 241-307
chat(c, conv, sid, msg, env) ==
    LET s == GetModel(c, "sentiment", LoadOk(env, "sentiment")) IN
    IF s.res = "raise" THEN ChatError(s, conv, env)
    ELSE IF Truthy(s.res)
    THEN IF CallOk(env, "sentiment")
         THEN ChatToxicity(Call(s, "sentiment"), conv, sid, msg, env,
                           IF env.sentiment = NoCls THEN DefaultSentiment ELSE env.sentiment)
         ELSE ChatError(Call(s, "sentiment"), conv, env)
    ELSE ChatToxicity(s, conv, sid, msg, env, DefaultSentiment)

\* the whole list for its last k elements
LastN_all(h, k) == h

\* the last k elements of a list: history[-k:]
LastN(h, k) == IF Len(h) <= k THEN h ELSE SubSeq(h, Len(h) - k + 1, Len(h))

\* lines 319-321: the length of the conversation text built from the exchanges
RECURSIVE TranscriptLen(_)
TranscriptLen(h) ==
    IF h = <<>> THEN 0
    ELSE ExchangeOverhead + Head(h).message.len + Head(h).response.len
         + TranscriptLen(Tail(h))

\* line 315
EnoughExchanges(h) == ~(Len(h) < MinExchanges)

\* lines 320-323
LongTranscript(h) == TranscriptLen(LastN(h, LastExchanges)) > MinTranscript

\* ConversationalAI.summarize_conversation, lines 309-337: the result is None,
\* the summary text, or "raise" when get_model raises at line 324
summarize_conversation(c, conv, sid, env) ==
    IF sid \notin DOMAIN conv THEN [ctx |-> c, result |-> PyNone]
    ELSE IF ~EnoughExchanges(conv[sid]) THEN [ctx |-> c, result |-> PyNone]
    ELSE IF LongTranscript(conv[sid])
    THEN LET g == GetModel(c, "summarizer", LoadOk(env, "summarizer")) IN
         IF g.res = "raise" THEN [ctx |-> g, result |-> "raise"]
         ELSE IF Truthy(g.res)
         THEN IF CallOk(env, "summarizer")
              THEN [ctx |-> Call(g, "summarizer"), result |-> env.summary]
              ELSE [ctx |-> Call(g, "summarizer"), result |-> PyNone]
         ELSE [ctx |-> g, result |-> PyNone]
    ELSE [ctx |-> c, result |-> PyNone]

\* line 197 summarizing at every message from the 20th on
ShouldSummarize_from(count) == count >= SummarizeEvery

\* views.py line 197
ShouldSummarize(count) == count % SummarizeEvery = 0

\* the classification the toxicity model gave in this request, if it was
\* called and returned
Classified(trace, env) ==
    IF <<"call", "toxicity">> \in Events(trace) /\ CallOk(env, "toxicity")
    THEN env.toxicity ELSE NoCls

\* the summarizer was unavailable to the request or raised when called
SummarizerFailed(trace, env) ==
    \/ <<"load_failed", "summarizer">> \in Events(trace)
    \/ (<<"call", "summarizer">> \in Events(trace) /\ ~CallOk(env, "summarizer"))

\* views.py chat_message, lines 171-227
chat_message(sid, msg, env) ==
    LET session == IF sid \in DOMAIN sessions THEN sessions[sid]
                   ELSE [message_count |-> 0, context_summary |-> ""]
        r == chat(Ctx(models, loaded_models), conversations, sid, msg, env)
        count == session.message_count + 1
        s == IF ShouldSummarize(count)
             THEN summarize_conversation(r.ctx, r.conversations, sid, env)
             ELSE [ctx |-> r.ctx, result |-> PyNone]
        saved == IF s.result \notin {PyNone, "raise", ""}
                 THEN s.result ELSE session.context_summary
    IN /\ models' = s.ctx.models
       /\ loaded_models' = s.ctx.loaded
       /\ conversations' = r.conversations
       /\ sessions' = (sid :> [message_count |-> count, context_summary |-> saved])
                      @@ sessions
       /\ chat_rows' = [chat_rows EXCEPT ![sid] = @ + 1]
       /\ last' = [op |-> "chat_message", sid |-> sid, msg |-> msg,
                   status |-> IF s.result = "raise" THEN "error" ELSE "ok",
                   error |-> r.error,
                   response |-> r.response,
                   sentiment |-> r.sentiment,
                   toxicity |-> r.toxicity_check,
                   classified |-> Classified(r.ctx.trace, env),
                   trace |-> s.ctx.trace,
                   pre_len |-> IF sid \in DOMAIN conversations
                               THEN Len(conversations[sid]) ELSE 0,
                   count |-> count,
                   summarize |-> ShouldSummarize(count),
                   summary |-> s.result,
                   summarizer_failed |-> SummarizerFailed(s.ctx.trace, env),
                   invoke_raised |-> InvokeRaised(s.ctx.trace, env)]
       /\ UNCHANGED <<loading_lock, pc, req, ret, issued, loadCount, calls, health, view>>

\* -------------------------------------------------------- ContentGenerator
\* the dict generate_safe_content returns: its keys, its error text ("" when
\* it has none) and the values the views and the claims read
GenResult(keys, error, toxicity_score, safety_score) ==
    [keys |-> keys, error |-> error, toxicity_score |-> toxicity_score,
     safety_score |-> safety_score]

\* the except branch of lines 408-413 forgetting what the manager has loaded
GenFailed_reset(c) ==
    [ctx |-> [c EXCEPT !.loaded = {}],
     result |-> GenResult({"error", "processing_time"}, "Content generation failed", 0, 0)]

\* lines 408-413: the except branch
GenFailed(c) ==
    [ctx |-> c,
     result |-> GenResult({"error", "processing_time"}, "Content generation failed", 0, 0)]

\* the prompt check of line 354 with the threshold of chat
PromptBlocked_chat_threshold(toxicity) ==
    toxicity # NoCls /\ toxicity.label = "TOXIC" /\ toxicity.score > ChatThreshold

\* line 354
PromptBlocked(toxicity) ==
    toxicity # NoCls /\ toxicity.label = "TOXIC" /\ toxicity.score > GenThreshold

\* line 393
OutputBlocked(toxicity) ==
    toxicity.label = "TOXIC" /\ toxicity.score > GenThreshold

\* lines 392-406: filter the generated text and return it
GenFilter(c, content_toxicity) ==
    IF OutputBlocked(content_toxicity)
    THEN [ctx |-> c,
          result |-> GenResult({"error", "reason"},
                               "Generated content failed safety check", 0, 0)]
    ELSE [ctx |-> c,
          result |-> GenResult({"generated_text", "sentiment", "safety_score",
                                "processing_time"},
                               "", 0, 10 - content_toxicity.score)]

\* lines 386-390: the toxicity of the generated text, by the model of line 351
GenOutputToxicity(c, env, has_toxicity) ==
    IF has_toxicity
    THEN IF CallOk(env, "toxicity_output")
         THEN GenFilter(Call(c, "toxicity"),
                        IF env.out_toxicity = NoCls THEN DefaultToxicity
                        ELSE env.out_toxicity)
         ELSE GenFailed(Call(c, "toxicity"))
    ELSE GenFilter(c, DefaultToxicity)

\* lines 378-384: the sentiment of the generated text
GenSentiment(c, env, has_toxicity) ==
    LET s == GetModel(c, "sentiment", LoadOk(env, "sentiment")) IN
    IF s.res = "raise" THEN GenFailed(s)
    ELSE IF Truthy(s.res)
    THEN IF CallOk(env, "sentiment")
         THEN GenOutputToxicity(Call(s, "sentiment"), env, has_toxicity)
         ELSE GenFailed(Call(s, "sentiment"))
    ELSE GenOutputToxicity(s, env, has_toxicity)

\* lines 360-376: generate
GenGenerate(c, env, has_toxicity) ==
    LET g == GetModel(c, "generator", LoadOk(env, "generator")) IN
    IF g.res = "raise" THEN GenFailed(g)
    ELSE IF ~Truthy(g.res)
    THEN [ctx |-> g,
          result |-> GenResult({"error"}, "Content generation model not available", 0, 0)]
    ELSE IF CallOk(env, "generator")
    THEN GenSentiment(Call(g, "generator"), env, has_toxicity)
    ELSE GenFailed(Call(g, "generator"))

\* ContentGenerator.generate_safe_content, lines 345-413
generate_safe_content(c, prompt, env) ==
    LET t == GetModel(c, "toxicity", LoadOk(env, "toxicity")) IN
    IF t.res = "raise" THEN GenFailed(t)
    ELSE IF Truthy(t.res)
    THEN IF CallOk(env, "toxicity")
         THEN IF PromptBlocked(env.toxicity)
              THEN [ctx |-> Call(t, "toxicity"),
                    result |-> GenResult({"error", "toxicity_score"},
                                  "Prompt rejected due to potentially harmful content",
                                  env.toxicity.score, 0)]
              ELSE GenGenerate(Call(t, "toxicity"), env, TRUE)
         ELSE GenFailed(Call(t, "toxicity"))
    ELSE GenGenerate(t, env, FALSE)

\* the classification the toxicity model gave of the generated text, if it was
\* called on it and returned
OutputClassified(trace, env) ==
    IF CountEvents(trace, <<"call", "toxicity">>) = 2 /\ CallOk(env, "toxicity_output")
    THEN env.out_toxicity ELSE NoCls

\* views.py generate_content, lines 264-297
generate_content(prompt, env) ==
    LET r == generate_safe_content(Ctx(models, loaded_models), prompt, env) IN
    /\ models' = r.ctx.models
    /\ loaded_models' = r.ctx.loaded
    /\ last' = [op |-> "generate_content", prompt |-> prompt,
                status |-> IF "error" \in r.result.keys THEN "bad_request" ELSE "ok",
                result |-> r.result,
                classified |-> Classified(r.ctx.trace, env),
                out_classified |-> OutputClassified(r.ctx.trace, env),
                invoke_raised |-> InvokeRaised(r.ctx.trace, env),
                trace |-> r.ctx.trace]
    /\ UNCHANGED <<loading_lock, pc, req, ret, issued, loadCount, calls, health, view,
                   conversations, sessions, chat_rows>>

\* ------------------------------------------------------- MultiModalAnalyzer
\* the text_analysis of a result: None, or a dict with the sentiment and,
\* when categories is TRUE, the zero-shot categories
NoTextAnalysis == [none |-> TRUE, sentiment |-> NoCls, categories |-> FALSE]
TextAnalysis(sentiment, categories) ==
    [none |-> FALSE, sentiment |-> sentiment, categories |-> categories]

\* ai_services.py line 188 and views.py line 92: vision_results[:3]
Top(n) == IF n < TopPredictions THEN n ELSE TopPredictions

\* the dict both analyses return: the number of predictions, the
\* text_analysis, and whether embeddings is a vector
AnalysisResult(predictions, text_analysis, embeddings) ==
    [predictions |-> predictions, text_analysis |-> text_analysis,
     embeddings |-> embeddings]

\* lines 230-232: the except branch raises again
AnalyzeRaise(c) ==
    [ctx |-> c, raised |-> TRUE, result |-> AnalysisResult(0, NoTextAnalysis, FALSE)]

\* lines 207-228: the embeddings and the result
AnalyzeEmbed(c, env, text_analysis) ==
    LET e == GetModel(c, "embeddings", LoadOk(env, "embeddings")) IN
    IF e.res = "raise" THEN AnalyzeRaise(e)
    ELSE IF Truthy(e.res)
    THEN IF CallOk(env, "embeddings")
         THEN [ctx |-> Call(e, "embeddings"), raised |-> FALSE,
               result |-> AnalysisResult(Top(env.predictions), text_analysis, TRUE)]
         ELSE AnalyzeRaise(Call(e, "embeddings"))
    ELSE [ctx |-> e, raised |-> FALSE,
          result |-> AnalysisResult(Top(env.predictions), text_analysis, FALSE)]

\* lines 199-205: the zero-shot categories, asked for only with a sentiment model
AnalyzeZeroShot(c, env) ==
    LET z == GetModel(c, "zero_shot", LoadOk(env, "zero_shot")) IN
    IF z.res = "raise" THEN AnalyzeRaise(z)
    ELSE IF Truthy(z.res)
    THEN IF CallOk(env, "zero_shot")
         THEN AnalyzeEmbed(Call(z, "zero_shot"), env, TextAnalysis(env.sentiment, TRUE))
         ELSE AnalyzeRaise(Call(z, "zero_shot"))
    ELSE AnalyzeEmbed(z, env, TextAnalysis(env.sentiment, FALSE))

\* lines 191-197: the sentiment of the text context
AnalyzeContext(c, context, env) ==
    IF context.len > 0
    THEN LET s == GetModel(c, "sentiment", LoadOk(env, "sentiment")) IN
         IF s.res = "raise" THEN AnalyzeRaise(s)
         ELSE IF Truthy(s.res)
         THEN IF CallOk(env, "sentiment")
              THEN AnalyzeZeroShot(Call(s, "sentiment"), env)
              ELSE AnalyzeRaise(Call(s, "sentiment"))
         ELSE AnalyzeEmbed(s, env, NoTextAnalysis)
    ELSE AnalyzeEmbed(c, env, NoTextAnalysis)

\* MultiModalAnalyzer.analyze_image_with_context, lines 171-232
analyze_image_with_context(c, context, env) ==
    LET v == GetModel(c, "vision", LoadOk(env, "vision")) IN
    IF v.res = "raise" \/ ~Truthy(v.res) THEN AnalyzeRaise(v)
    ELSE IF CallOk(env, "vision")
    THEN AnalyzeContext(Call(v, "vision"), context, env)
    ELSE AnalyzeRaise(Call(v, "vision"))

\* sentiment, zero-shot and embeddings are all unavailable to this request:
\* none is loaded and the load of each fails
OthersUnavailable(env) ==
    \A n \in {"sentiment", "zero_shot", "embeddings"} :
        n \notin loaded_models /\ ~LoadOk(env, n)

\* a request calls multimodal_analyzer.analyze_image_with_context
analyze_with_context(context, env) ==
    LET r == analyze_image_with_context(Ctx(models, loaded_models), context, env) IN
    /\ models' = r.ctx.models
    /\ loaded_models' = r.ctx.loaded
    /\ last' = [op |-> "analyze_image_with_context", context |-> context,
                status |-> IF r.raised THEN "raise" ELSE "ok",
                result |-> r.result,
                predictions |-> env.predictions,
                others_unavailable |-> OthersUnavailable(env) /\ CallOk(env, "vision"),
                faults |-> env.faults,
                trace |-> r.ctx.trace]
    /\ UNCHANGED <<loading_lock, pc, req, ret, issued, loadCount, calls, health, view,
                   conversations, sessions, chat_rows>>

\* views.py lines 108-132: the embeddings, whose failure is only printed
ViewEmbed(c, env, text_analysis) ==
    LET e == GetModel(c, "embeddings", LoadOk(env, "embeddings")) IN
    IF e.res = "raise"
    THEN [ctx |-> e, status |-> "ok",
          result |-> AnalysisResult(Top(env.predictions), text_analysis, FALSE)]
    ELSE IF Truthy(e.res)
    THEN [ctx |-> Call(e, "embeddings"), status |-> "ok",
          result |-> AnalysisResult(Top(env.predictions), text_analysis,
                                    CallOk(env, "embeddings"))]
    ELSE [ctx |-> e, status |-> "ok",
          result |-> AnalysisResult(Top(env.predictions), text_analysis, FALSE)]

\* views.py lines 95-106: the sentiment of the context, neutral when it fails
ViewContext(c, context, env) ==
    IF context.len > 0
    THEN LET s == GetModel(c, "sentiment", LoadOk(env, "sentiment")) IN
         IF s.res = "raise"
         THEN ViewEmbed(s, env, TextAnalysis(DefaultSentiment, FALSE))
         ELSE IF Truthy(s.res)
         THEN IF CallOk(env, "sentiment")
              THEN ViewEmbed(Call(s, "sentiment"), env, TextAnalysis(env.sentiment, FALSE))
              ELSE ViewEmbed(Call(s, "sentiment"), env,
                             TextAnalysis(DefaultSentiment, FALSE))
         ELSE ViewEmbed(s, env, NoTextAnalysis)
    ELSE ViewEmbed(c, env, NoTextAnalysis)

\* views.py analyze_image, lines 40-161
analyze_image_view(c, context, env) ==
    LET v == GetModel(c, "vision", LoadOk(env, "vision")) IN
    IF v.res = "raise" \/ ~Truthy(v.res)
    THEN [ctx |-> v, status |-> "service_unavailable",
          result |-> AnalysisResult(0, NoTextAnalysis, FALSE)]
    ELSE IF CallOk(env, "vision")
    THEN ViewContext(Call(v, "vision"), context, env)
    ELSE [ctx |-> Call(v, "vision"), status |-> "server_error",
          result |-> AnalysisResult(0, NoTextAnalysis, FALSE)]

\* a request to the analyze_image view
analyze_image(context, env) ==
    LET r == analyze_image_view(Ctx(models, loaded_models), context, env) IN
    /\ models' = r.ctx.models
    /\ loaded_models' = r.ctx.loaded
    /\ last' = [op |-> "analyze_image", context |-> context,
                status |-> r.status,
                result |-> r.result,
                predictions |-> env.predictions,
                others_unavailable |-> OthersUnavailable(env) /\ CallOk(env, "vision"),
                faults |-> env.faults,
                trace |-> r.ctx.trace]
    /\ UNCHANGED <<loading_lock, pc, req, ret, issued, loadCount, calls, health, view,
                   conversations, sessions, chat_rows>>

\* a caller asks conversational_ai.summarize_conversation(sid) directly
summarize(sid, env) ==
    LET r == summarize_conversation(Ctx(models, loaded_models), conversations, sid, env) IN
    /\ models' = r.ctx.models
    /\ loaded_models' = r.ctx.loaded
    /\ last' = [op |-> "summarize", sid |-> sid, result |-> r.result,
                invoke_raised |-> InvokeRaised(r.ctx.trace, env),
                trace |-> r.ctx.trace]
    /\ UNCHANGED <<loading_lock, pc, req, ret, issued, loadCount, calls, health, view,
                   conversations, sessions, chat_rows>>

\* --------------------------------------------------------- get_conversation
\* what get_conversation answers: the session's fields, the number of its
\* messages, and whether created_at is a date
Snapshot(status, sid, context_summary, message_count, created, messages) ==
    [status |-> status, session_id |-> sid, context_summary |-> context_summary,
     message_count |-> message_count, created |-> created, messages |-> messages]

\* a 404 for the empty conversation
EmptyConversation_not_found(sid) == Snapshot("not_found", sid, "", 0, FALSE, 0)

\* views.py lines 237-245: the empty conversation instead of a 404
EmptyConversation(sid) == Snapshot("ok", sid, "", 0, FALSE, 0)

\* views.py lines 233-235 and serializers.py lines 14-20: the stored session
SerializedSession(sid) ==
    Snapshot("ok", sid, sessions[sid].context_summary, sessions[sid].message_count,
             TRUE, chat_rows[sid])

\* views.py get_conversation, lines 230-254
get_conversation(sid) ==
    /\ last' = [op |-> "get_conversation", sid |-> sid,
                existed |-> sid \in DOMAIN sessions,
                snapshot |-> IF sid \in DOMAIN sessions THEN SerializedSession(sid)
                             ELSE EmptyConversation(sid)]
    /\ UNCHANGED <<regVars, conversations, sessions, chat_rows, health, view>>

\* ------------------------------------------------------- model_health_check
\* views.py lines 341-349: the names of test_results, in the order they are read
HealthNames == <<"vision", "sentiment", "zero_shot", "generator", "summarizer",
                 "embeddings", "toxicity">>

\* no model_health_check request has been made
IdleHealth == [pc |-> "idle", pos |-> 0, test_results |-> {}, ready |-> {},
               status |-> "none"]

\* views.py lines 323-339: the request starts; model_manager exists and has
\* its models attribute since AIModelManager.__init__
model_health_check_begin ==
    /\ health.pc # "reading"
    /\ health' = [pc |-> "reading", pos |-> 1, test_results |-> {}, ready |-> {},
                  status |-> "none"]
    /\ UNCHANGED <<regVars, conversations, sessions, chat_rows, last, view>>

\* one entry of test_results read with get_model, which loads the model when
\* the lock is free
model_health_check_read_get_model ==
    /\ health.pc = "reading"
    /\ health.pos <= Len(HealthNames)
    /\ LET n == HealthNames[health.pos]
           c == IF n \in loaded_models \/ loading_lock # NoThread
                THEN Ctx(models, loaded_models)
                ELSE GetModel(Ctx(models, loaded_models), n, TRUE)
       IN /\ models' = c.models
          /\ loaded_models' = c.loaded
          /\ health' = [health EXCEPT
                          !.pos = @ + 1,
                          !.test_results = IF DictGet(c.models, n) # PyNone
                                           THEN @ \cup {n} ELSE @,
                          !.ready = IF n \in c.loaded THEN @ \cup {n} ELSE @]
    /\ UNCHANGED <<loading_lock, pc, req, ret, issued, loadCount, calls,
                   conversations, sessions, chat_rows, last, view>>

\* views.py lines 342-348: one entry of test_results,
\* model_manager.models.get(name) is not None; ready keeps whether the
\* capability was Ready at this read
model_health_check_read ==
    /\ health.pc = "reading"
    /\ health.pos <= Len(HealthNames)
    /\ LET n == HealthNames[health.pos] IN
       health' = [health EXCEPT
                    !.pos = @ + 1,
                    !.test_results = IF DictGet(models, n) # PyNone
                                     THEN @ \cup {n} ELSE @,
                    !.ready = IF CapState(n) = "Ready" THEN @ \cup {n} ELSE @]
    /\ UNCHANGED <<regVars, conversations, sessions, chat_rows, last, view>>

\* views.py lines 351-361: loaded_count against total_models
HealthStatus(test_results) ==
    LET loaded_count == Cardinality(test_results)
        total_models == Len(HealthNames)
    IN IF loaded_count = total_models THEN "healthy"
       ELSE IF loaded_count > 0 THEN "degraded"
       ELSE "unhealthy"

\* views.py lines 351-370: the status and the response
model_health_check_respond ==
    /\ health.pc = "reading"
    /\ health.pos > Len(HealthNames)
    /\ health' = [health EXCEPT !.pc = "done",
                                !.status = HealthStatus(health.test_results)]
    /\ UNCHANGED <<regVars, conversations, sessions, chat_rows, last, view>>

\* views.py model_status, lines 300-320: the keys of model_manager.models and
\* their number
model_status ==
    /\ last' = [op |-> "model_status",
                model_manager_exists |-> TRUE,
                has_models_attribute |-> TRUE,
                available_models |-> {n \in ModelNames : models[n] # Absent},
                models_count |-> Cardinality({n \in ModelNames : models[n] # Absent})]
    /\ UNCHANGED <<regVars, conversations, sessions, chat_rows, health, view>>

\* ------------------------------------------------------------ what requests meet
SessionIds == {"s1", "s2"}
\* the length of str(e) in the error response
ExcLens == {12}
\* messages and prompts, by length
Message(len) == Str("user", len)

NoFaults == {{}}
LoadFaults(names) == {{<<"load", n>>} : n \in names}
CallFaults(names) == {{<<"call", n>>} : n \in names}

\* what the classifiers answer; NoCls is an empty answer
ChatToxicityResults == {Cls("TOXIC", 6), Cls("TOXIC", 7), Cls("TOXIC", 8),
                        Cls("NON_TOXIC", 8), NoCls}
GenToxicityResults == {Cls("TOXIC", 5), Cls("TOXIC", 6), Cls("NON_TOXIC", 8), NoCls}
SentimentResults == {Cls("POSITIVE", 9), NoCls}

Env(faults, sentiment, toxicity, out_toxicity, generated, exc) ==
    [faults |-> faults, sentiment |-> sentiment, toxicity |-> toxicity,
     out_toxicity |-> out_toxicity, generated |-> generated,
     summary |-> "summary", exc |-> exc]

ChatNames == {"sentiment", "toxicity", "generator", "summarizer"}
ChatEnvs ==
    {Env(f, s, t, NoCls, 40, e) :
        f \in NoFaults \cup LoadFaults(ChatNames) \cup CallFaults(ChatNames),
        s \in SentimentResults, t \in ChatToxicityResults, e \in ExcLens}

GenNames == {"toxicity", "generator", "sentiment"}
GenEnvs ==
    {Env(f, s, t, o, 40, e) :
        f \in NoFaults \cup LoadFaults(GenNames)
              \cup CallFaults(GenNames \cup {"toxicity_output"}),
        s \in {Cls("POSITIVE", 9)}, t \in GenToxicityResults, o \in GenToxicityResults,
        e \in ExcLens}

\* the session's stored message_count, 0 when it has no row
MessageCount(sid) == IF sid \in DOMAIN sessions THEN sessions[sid].message_count ELSE 0

\* ------------------------------------ chat_message handled by several threads
\* a thread that handles no chat_message request; message_count and
\* context_summary are the fields of its own ConversationSession object
IdleView == [pc |-> "idle", sid |-> "none", msg |-> Message(0),
             message_count |-> 0, context_summary |-> "", missing |-> FALSE,
             response |-> Str("none", 0), error |-> FALSE, status |-> "none"]

\* the other variables a step of a chat_message request may leave alone
ViewFrame == <<loading_lock, pc, req, ret, issued, loadCount, calls, last, health>>

\* views.py lines 172-179: get_or_create gives the thread its session object
chat_message_begin(t, sid, msg) ==
    /\ view[t].pc = "idle"
    /\ sessions' = IF sid \in DOMAIN sessions THEN sessions
                   ELSE (sid :> [message_count |-> 0, context_summary |-> ""]) @@ sessions
    /\ view' = [view EXCEPT ![t] =
                  [IdleView EXCEPT !.pc = "chat", !.sid = sid, !.msg = msg,
                                   !.message_count = MessageCount(sid),
                                   !.context_summary =
                                       IF sid \in DOMAIN sessions
                                       THEN sessions[sid].context_summary ELSE ""]]
    /\ UNCHANGED <<models, loaded_models, conversations, chat_rows, ViewFrame>>

\* views.py line 182 and chat lines 245-280, 300-307: the response, or the
\* error result of the except branch, which stores nothing
chat_respond(t, env) ==
    /\ view[t].pc = "chat"
    /\ LET r == chat(Ctx(models, loaded_models), conversations, view[t].sid,
                     view[t].msg, env)
       IN /\ models' = r.ctx.models
          /\ loaded_models' = r.ctx.loaded
          /\ view' = [view EXCEPT ![t].response = r.response,
                                  ![t].error = r.error,
                                  ![t].pc = IF r.error THEN "create_row"
                                            ELSE "store_check"]
    /\ UNCHANGED <<conversations, sessions, chat_rows, ViewFrame>>

\* chat line 283: if session_id not in self.conversations
chat_store_check(t) ==
    /\ view[t].pc = "store_check"
    /\ view' = [view EXCEPT ![t].missing = view[t].sid \notin DOMAIN conversations,
                            ![t].pc = IF view[t].sid \notin DOMAIN conversations
                                      THEN "store_create" ELSE "store_append"]
    /\ UNCHANGED <<models, loaded_models, conversations, sessions, chat_rows, ViewFrame>>

\* chat line 284: self.conversations[session_id] = []
chat_store_create(t) ==
    /\ view[t].pc = "store_create"
    /\ conversations' = (view[t].sid :> <<>>) @@ conversations
    /\ view' = [view EXCEPT ![t].pc = "store_append"]
    /\ UNCHANGED <<models, loaded_models, sessions, chat_rows, ViewFrame>>

\* chat lines 285-298: append the exchange and return the result
chat_store_append(t) ==
    /\ view[t].pc = "store_append"
    /\ conversations' = [conversations EXCEPT ![view[t].sid] =
                            Append(@, [message |-> view[t].msg,
                                       response |-> view[t].response])]
    /\ view' = [view EXCEPT ![t].pc = "create_row"]
    /\ UNCHANGED <<models, loaded_models, sessions, chat_rows, ViewFrame>>

\* views.py lines 185-190: ChatMessage.objects.create
chat_message_create_row(t) ==
    /\ view[t].pc = "create_row"
    /\ chat_rows' = [chat_rows EXCEPT ![view[t].sid] = @ + 1]
    /\ view' = [view EXCEPT ![t].pc = "save"]
    /\ UNCHANGED <<models, loaded_models, conversations, sessions, ViewFrame>>

\* views.py lines 193-194: count on the thread's session object, and save it
chat_message_save(t) ==
    /\ view[t].pc = "save"
    /\ sessions' = [sessions EXCEPT ![view[t].sid] =
                       [message_count |-> view[t].message_count + 1,
                        context_summary |-> view[t].context_summary]]
    /\ view' = [view EXCEPT ![t].message_count = @ + 1, ![t].pc = "finish"]
    /\ UNCHANGED <<models, loaded_models, conversations, chat_rows, ViewFrame>>

\* views.py lines 197-227: the summary at every 20th message, and the response
chat_message_finish(t, env) ==
    /\ view[t].pc = "finish"
    /\ LET s == IF ShouldSummarize(view[t].message_count)
                THEN summarize_conversation(Ctx(models, loaded_models), conversations,
                                            view[t].sid, env)
                ELSE [ctx |-> Ctx(models, loaded_models), result |-> PyNone]
           saved == s.result \notin {PyNone, "raise", ""}
       IN /\ models' = s.ctx.models
          /\ loaded_models' = s.ctx.loaded
          /\ sessions' = IF saved
                         THEN [sessions EXCEPT ![view[t].sid] =
                                  [message_count |-> view[t].message_count,
                                   context_summary |-> s.result]]
                         ELSE sessions
          /\ view' = [view EXCEPT
                        ![t].context_summary = IF saved THEN s.result ELSE @,
                        ![t].status = IF s.result = "raise" THEN "error" ELSE "ok",
                        ![t].pc = "done"]
    /\ UNCHANGED <<conversations, chat_rows, ViewFrame>>

\* ------------------------------------------------------------ specifications
\* no health check and no chat_message request is in progress
ViewInit ==
    /\ health = IdleHealth
    /\ view = [t \in Threads |-> IdleView]

PipeInit ==
    /\ conversations = <<>>
    /\ sessions = <<>>
    /\ chat_rows = [sid \in SessionIds |-> 0]
    /\ last = [op |-> "none"]
    /\ ViewInit

Init == RegInit /\ PipeInit

Next ==
    \/ \E t \in Threads, n \in RequestNames : get_model_call(t, n)
    \/ \E t \in Threads : get_model_check(t)
    \/ \E t \in Threads : load_model_check(t)
    \/ \E t \in Threads : load_model_acquire(t)
    \/ \E t \in Threads : load_model_recheck(t)
    \/ \E t \in Threads, ok \in BOOLEAN : load_model_branch(t, ok)
    \/ \E t \in Threads, ok \in BOOLEAN : load_vision_test(t, ok)
    \/ \E t \in Threads : load_vision_mock(t)
    \/ \E t \in Threads : load_model_publish(t)
    \/ \E t \in Threads : load_model_fail(t)
    \/ \E t \in Threads : get_model_return(t)

\* the manager shared by concurrent get_model calls
Spec == Init /\ [][Next]_vars

\* get_model calls in one run of SpecFair
MaxFairCalls == 2

\* the steps of a thread inside get_model
ThreadStep(t) ==
    \/ get_model_check(t)
    \/ load_model_check(t)
    \/ load_model_acquire(t)
    \/ load_model_recheck(t)
    \/ \E ok \in BOOLEAN : load_model_branch(t, ok)
    \/ \E ok \in BOOLEAN : load_vision_test(t, ok)
    \/ load_vision_mock(t)
    \/ load_model_publish(t)
    \/ load_model_fail(t)
    \/ get_model_return(t)

NextFair ==
    \/ \E t \in Threads, n \in RequestNames :
          /\ calls < MaxFairCalls
          /\ get_model_call(t, n)
    \/ \E t \in Threads : ThreadStep(t)

\* the manager under a scheduler that lets every thread inside get_model run:
\* a thread that can take a step eventually takes one, and a load returns or
\* raises
SpecFair == Init /\ [][NextFair]_vars /\ \A t \in Threads : WF_vars(ThreadStep(t))

\* chat messages per session in one run of SpecPipe
MaxPipeCount == 2

NextPipe ==
    \/ \E sid \in {"s1"}, msg \in {Message(5)}, env \in ChatEnvs :
          /\ MessageCount(sid) < MaxPipeCount
          /\ chat_message(sid, msg, env)
    \/ \E prompt \in {Message(5)}, env \in GenEnvs : generate_content(prompt, env)
    \/ \E sid \in SessionIds : get_conversation(sid)

\* chat and content generation requests, one at a time
SpecPipe == Init /\ [][NextPipe]_vars

\* chat messages in one run of SpecTrigger
MaxTriggerCount == 41

TriggerEnvs ==
    {Env(f, Cls("POSITIVE", 9), Cls("NON_TOXIC", 8), NoCls, 40, e) :
        f \in NoFaults \cup LoadFaults({"sentiment", "summarizer"})
              \cup CallFaults({"summarizer"}),
        e \in ExcLens}

NextTrigger ==
    \E env \in TriggerEnvs :
        /\ MessageCount("s1") < MaxTriggerCount
        /\ chat_message("s1", Message(300), env)

\* one session's chat messages up to and past the 40th
SpecTrigger == Init /\ [][NextTrigger]_vars

\* exchanges in the history a run of SpecSumm starts with
MaxHistory == 11

\* an exchange of 100 characters in the conversation text, and one of 360
Exchanges == {[message |-> Message(m), response |-> Generated(40)] : m \in {40, 300}}
Histories == UNION {[1..k -> Exchanges] : k \in 0..MaxHistory}

\* the manager is fresh; session s1 has had some exchanges, or none at all,
\* and session s2 has never been seen
SummInit ==
    /\ RegInit
    /\ \E h \in Histories :
          IF h = <<>>
          THEN /\ conversations = <<>>
               /\ sessions = <<>>
               /\ chat_rows = [sid \in SessionIds |-> 0]
          ELSE /\ conversations = ("s1" :> h)
               /\ sessions = ("s1" :> [message_count |-> Len(h), context_summary |-> ""])
               /\ chat_rows = [sid \in SessionIds |-> IF sid = "s1" THEN Len(h) ELSE 0]
    /\ last = [op |-> "none"]
    /\ ViewInit

SummEnvs ==
    {Env(f, NoCls, NoCls, NoCls, 40, e) :
        f \in NoFaults \cup LoadFaults({"summarizer"}) \cup CallFaults({"summarizer"}),
        e \in ExcLens}

NextSumm ==
    \E sid \in SessionIds, env \in SummEnvs : summarize(sid, env)

\* summarize_conversation applied to the histories
SpecSumm == SummInit /\ [][NextSumm]_vars

AnalyzeEnvs ==
    {[faults |-> f, sentiment |-> s, predictions |-> n] :
        f \in SUBSET {<<"load", "vision">>, <<"load", "sentiment">>,
                      <<"load", "zero_shot">>, <<"load", "embeddings">>}
              \cup CallFaults({"vision", "sentiment", "zero_shot", "embeddings"}),
        s \in {Cls("POSITIVE", 9)}, n \in {0, 5}}

NextAnalyze ==
    \/ \E context \in {Message(0), Message(5)}, env \in AnalyzeEnvs :
          analyze_with_context(context, env)
    \/ \E context \in {Message(0), Message(5)}, env \in AnalyzeEnvs :
          analyze_image(context, env)

\* image analyses, one at a time
SpecAnalyze == Init /\ [][NextAnalyze]_vars

\* get_model calls in one run of SpecHealth
MaxHealthCalls == 2

\* the capabilities no thread of SpecHealth asks for
WarmModels == KnownModels \ {"vision", "generator"}

\* the manager is fresh, or earlier requests have loaded the capabilities of
\* WarmModels
HealthInit ==
    /\ \E warm \in {{}, WarmModels} :
          /\ models = [n \in ModelNames |-> IF n \in warm THEN "inst" ELSE Absent]
          /\ loaded_models = warm
          /\ loadCount = [n \in ModelNames |-> IF n \in warm THEN 1 ELSE 0]
    /\ loading_lock = NoThread
    /\ pc = [t \in Threads |-> "idle"]
    /\ req = [t \in Threads |-> OtherName]
    /\ ret = [t \in Threads |-> "nothing"]
    /\ issued = [t \in Threads |-> "Unloaded"]
    /\ calls = 0
    /\ PipeInit

\* the thread of SpecHealth that calls get_model
HealthLoaders == {1}

NextHealth ==
    \/ \E t \in HealthLoaders, n \in {"vision", "generator"} :
          /\ calls < MaxHealthCalls
          /\ get_model_call(t, n)
    \/ \E t \in HealthLoaders : get_model_check(t)
    \/ \E t \in HealthLoaders : load_model_check(t)
    \/ \E t \in HealthLoaders : load_model_acquire(t)
    \/ \E t \in HealthLoaders : load_model_recheck(t)
    \/ \E t \in HealthLoaders, ok \in BOOLEAN : load_model_branch(t, ok)
    \/ \E t \in HealthLoaders, ok \in BOOLEAN : load_vision_test(t, ok)
    \/ \E t \in HealthLoaders : load_vision_mock(t)
    \/ \E t \in HealthLoaders : load_model_publish(t)
    \/ \E t \in HealthLoaders : load_model_fail(t)
    \/ \E t \in HealthLoaders : get_model_return(t)
    \/ model_health_check_begin
    \/ model_health_check_read
    \/ model_health_check_respond
    \/ model_status

\* health checks while a request thread loads models
SpecHealth == HealthInit /\ [][NextHealth]_vars

\* what the chat requests of SpecChat meet
ChatRaceEnvs ==
    {Env(f, Cls("POSITIVE", 9), t, NoCls, 40, e) :
        f \in NoFaults \cup CallFaults({"generator"}),
        t \in {Cls("NON_TOXIC", 8), Cls("TOXIC", 8)}, e \in ExcLens}

NextChat ==
    \/ \E t \in Threads, sid \in SessionIds : chat_message_begin(t, sid, Message(4 + t))
    \/ \E t \in Threads, env \in ChatRaceEnvs : chat_respond(t, env)
    \/ \E t \in Threads : chat_store_check(t)
    \/ \E t \in Threads : chat_store_create(t)
    \/ \E t \in Threads : chat_store_append(t)
    \/ \E t \in Threads : chat_message_create_row(t)
    \/ \E t \in Threads : chat_message_save(t)
    \/ \E t \in Threads, env \in SummEnvs : chat_message_finish(t, env)

\* one chat_message request per thread, the threads running concurrently
SpecChat == Init /\ [][NextChat]_vars

\* ------------------------------------------------------------------ claims

\* C1: N concurrent get_model calls on a capability that is not loaded yet run
\* its load procedure exactly once in total, whatever the load's outcome: when
\* every thread has made its one call for the same name, each issued while the
\* capability was Unloaded, and all have finished, the name's load count is 1.
C1_ExactlyOneLoad ==
    \A n \in RequestNames :
        ( /\ calls = NumThreads
          /\ \A t \in Threads : /\ pc[t] = "idle"
                                /\ ret[t] # "nothing"
                                /\ req[t] = n
                                /\ issued[t] = "Unloaded" )
        => loadCount[n] = 1

\* C2: once a capability's load has failed, a later get_model for it returns
\* None without executing the load again: a call issued on a Failed capability
\* never enters the load, leaves the load count at 1 and returns None.
C2_NoReloadAfterFailure ==
    \A t \in Threads :
        (issued[t] = "Failed" /\ (pc[t] # "idle" \/ ret[t] # "nothing"))
        => /\ pc[t] \notin LoadingPcs
           /\ loadCount[req[t]] = 1
           /\ (pc[t] = "idle" => ret[t] = PyNone)

\* the steps the spec allows a capability's state to take
MonotonicStep(a, b) ==
    \/ a = b
    \/ a = "Unloaded" /\ b = "Loading"
    \/ a = "Loading" /\ b \in {"Ready", "Failed"}

\* C3: every capability's state moves only Unloaded -> Loading -> Ready or
\* Unloaded -> Loading -> Failed: never out of Ready, never out of Failed.
C3_MonotonicState ==
    [][\A n \in ModelNames : MonotonicStep(CapState(n), CapState(n)')]_vars

\* C4: a load exception is raised only to the one caller that performed the
\* failing load: of the calls for one capability, at most one ends with the
\* exception raised to it.
C4_ExceptionOnlyToLoader ==
    \A n \in ModelNames :
        Cardinality({t \in Threads : req[t] = n /\ ret[t] = "raise"}) <= 1

PromptRejection == "Prompt rejected due to potentially harmful content"
OutputRejection == "Generated content failed safety check"

\* C5: text is blocked iff the toxicity model labels it TOXIC with a score
\* strictly above the threshold, 0.7 in chat and 0.5 in the prompt check of
\* generate_safe_content: whenever the model classified the text, chat answers
\* with the refusal iff TOXIC above 7 tenths, and generate_safe_content rejects
\* the prompt iff TOXIC above 5 tenths.
C5_ThresholdAsymmetry ==
    /\ (last.op = "chat_message" /\ last.classified # NoCls)
       => (last.response = Refusal
           <=> (last.classified.label = "TOXIC" /\ last.classified.score > 7))
    /\ (last.op = "generate_content" /\ last.classified # NoCls)
       => (last.result.error = PromptRejection
           <=> (last.classified.label = "TOXIC" /\ last.classified.score > 5))

\* C5's case: chat got TOXIC at 0.6 and did not refuse
C5_Witness ==
    /\ last.op = "chat_message"
    /\ last.classified = Cls("TOXIC", 6)
    /\ last.response.kind = "generated"

\* C6: over one session's chat messages, summarize_conversation is called
\* exactly at the messages whose resulting count is a multiple of 20 (the 20th
\* and the 40th, none before, between or after), and the summarizer is loaded
\* or called at no other message.
C6_SummarizationTrigger ==
    last.op = "chat_message" =>
        /\ last.summarize <=> last.count \in {20, 40, 60}
        /\ (\E e \in Events(last.trace) : e[2] = "summarizer") => last.count \in {20, 40, 60}

\* C6's case: the 40th message called the summarizer
C6_Witness ==
    /\ last.op = "chat_message"
    /\ last.count = 40
    /\ last.summarize
    /\ <<"call", "summarizer">> \in Events(last.trace)
    /\ sessions["s1"].context_summary = "summary"

\* the characters of the conversation text of exchanges i..Len(h) of h
RECURSIVE CharsFrom(_, _)
CharsFrom(h, i) ==
    IF i > Len(h) THEN 0
    ELSE 7 + h[i].message.len + 12 + h[i].response.len + 1 + CharsFrom(h, i + 1)

\* the session is known, has at least 5 exchanges, and the text of its last
\* 10 exchanges is longer than 1000 characters
SummarizePrecondition(sid) ==
    /\ sid \in DOMAIN conversations
    /\ Len(conversations[sid]) >= 5
    /\ CharsFrom(conversations[sid],
                 IF Len(conversations[sid]) > 10 THEN Len(conversations[sid]) - 9 ELSE 1)
         > 1000

\* C7: summarize_conversation neither loads nor calls the summarizer and
\* returns None when the session is unknown, has fewer than 5 exchanges, or
\* the text of its last 10 exchanges is not longer than 1000 characters; the
\* summarizer is asked for only when all three hold.
C7_SummarizePrecondition ==
    last.op = "summarize" =>
        /\ ~SummarizePrecondition(last.sid)
           => /\ last.result = PyNone
              /\ last.trace = <<>>
        /\ (\E e \in Events(last.trace) : e[2] = "summarizer")
           => SummarizePrecondition(last.sid)

\* C7's case: 11 exchanges whose first is long and whose last 10 make exactly
\* 1000 characters, and the summarizer was not asked
C7_Witness ==
    /\ last.op = "summarize"
    /\ last.sid = "s1"
    /\ "s1" \in DOMAIN conversations
    /\ Len(conversations["s1"]) = 11
    /\ conversations["s1"][1].message.len = 300
    /\ CharsFrom(conversations["s1"], 2) = 1000
    /\ last.result = PyNone
    /\ last.trace = <<>>

\* C8: with vision Ready and sentiment, zero-shot and embeddings unavailable
\* because their loads fail, the analysis succeeds with and without a text
\* context, returns the top predictions, and has no text analysis and no
\* embeddings.
C8_DegradedAnalysis ==
    (last.op \in {"analyze_image_with_context", "analyze_image"}
        /\ last.others_unavailable)
    => /\ last.status = "ok"
       /\ "vision" \in loaded_models
       /\ last.result.predictions = (IF last.predictions < 3 THEN last.predictions ELSE 3)
       /\ last.result.text_analysis.none
       /\ ~last.result.embeddings

\* C9: a prompt classified TOXIC above 0.5 is rejected with its score before
\* the generator is loaded or called; the output rejection comes only after
\* the generator was called and its text was classified TOXIC above 0.5; the
\* two rejections differ in their text and keys.
C9_RejectionDistinctness ==
    last.op = "generate_content" =>
        /\ (last.classified.label = "TOXIC" /\ last.classified.score > 5)
           => /\ last.result.error = PromptRejection
              /\ last.result.keys = {"error", "toxicity_score"}
              /\ last.result.toxicity_score = last.classified.score
              /\ CountEvents(last.trace, <<"call", "generator">>) = 0
              /\ <<"load", "generator">> \notin Events(last.trace)
        /\ last.result.error = OutputRejection
           => /\ last.result.keys = {"error", "reason"}
              /\ CountEvents(last.trace, <<"call", "generator">>) = 1
              /\ last.out_classified.label = "TOXIC"
              /\ last.out_classified.score > 5
              /\ ~(last.classified.label = "TOXIC" /\ last.classified.score > 5)

\* C9's case: a prompt at 0.6 was rejected and the generator never ran
C9_Witness ==
    /\ last.op = "generate_content"
    /\ last.classified = Cls("TOXIC", 6)
    /\ last.result.error = PromptRejection
    /\ <<"call", "generator">> \notin Events(last.trace)

\* C10: when the generator's load fails and the message is not blocked, chat
\* answers with the echo of the message, appends the exchange to the session's
\* history, and the message count goes up by one.
C10_ChatFallback ==
    (last.op = "chat_message" /\ <<"load_failed", "generator">> \in Events(last.trace))
    => /\ last.response = Echo(last.msg)
       /\ last.sid \in DOMAIN conversations
       /\ Len(conversations[last.sid]) = last.pre_len + 1
       /\ conversations[last.sid][last.pre_len + 1]
            = [message |-> last.msg, response |-> last.response]
       /\ sessions[last.sid].message_count = last.count

\* C11: when the toxicity model is unavailable because its load fails, the
\* safety check does not fail its caller: chat answers normally (not with its
\* error text, not with the refusal) under the default toxicity, and
\* generate_safe_content goes on to the generator instead of returning its
\* failure.
C11_PermissiveSafetyGate ==
    /\ (last.op = "chat_message" /\ <<"load_failed", "toxicity">> \in Events(last.trace))
       => /\ ~last.error
          /\ last.response.kind \in {"generated", "echo"}
          /\ last.toxicity = DefaultToxicity
    /\ (last.op = "generate_content" /\ <<"load_failed", "toxicity">> \in Events(last.trace))
       => /\ \E e \in Events(last.trace) : e[2] = "generator"
          /\ last.result.error # "Content generation failed"

\* C12: a finished health check reports 'healthy' iff all seven known
\* capabilities were Ready when it read them, 'unhealthy' iff none was, and
\* 'degraded' otherwise.
C12_HealthAggregate ==
    health.pc = "done" =>
        /\ health.status = "healthy" <=> health.ready = KnownModels
        /\ health.status = "unhealthy" <=> health.ready = {}
        /\ health.status = "degraded" <=> health.ready \notin {{}, KnownModels}

\* C13: get_conversation for a session that has never existed answers the
\* empty default snapshot (no messages, empty summary, count 0) with success,
\* and the step creates no session and changes nothing that is stored.
C13_GetConversationDefault ==
    [][(last'.op = "get_conversation" /\ ~last'.existed)
       => /\ last'.snapshot.status = "ok"
          /\ last'.snapshot.session_id = last'.sid
          /\ last'.snapshot.messages = 0
          /\ last'.snapshot.context_summary = ""
          /\ last'.snapshot.message_count = 0
          /\ last'.sid \notin DOMAIN sessions'
          /\ last'.sid \notin DOMAIN conversations'
          /\ UNCHANGED <<models, loaded_models, conversations, sessions, chat_rows>>]_vars

\* C13's case: session s1 has chatted, s2 has never existed and was asked for
C13_Witness ==
    /\ last.op = "get_conversation"
    /\ last.sid = "s2"
    /\ ~last.existed
    /\ "s1" \in DOMAIN sessions
    /\ sessions["s1"].message_count > 0
    /\ "s2" \notin DOMAIN sessions

\* the chat_message requests a thread has completed on the session
Completed(sid) == {t \in Threads : view[t].sid = sid /\ view[t].pc = "done"}
\* no chat_message request on the session is in progress
Quiet(sid) == \A t \in Threads : view[t].sid = sid => view[t].pc = "done"

\* C14: when the chat requests that ran concurrently on a session have all
\* completed, N of them, its stored message_count is N and equals the number
\* of its stored ChatMessage rows: no increment is lost.
C14_NoLostTurnCount ==
    \A sid \in SessionIds :
        Quiet(sid) => /\ MessageCount(sid) = Cardinality(Completed(sid))
                      /\ MessageCount(sid) = chat_rows[sid]

\* C15: under concurrent chat calls on one session, the first ones on an
\* unseen session included, the session's history only grows at its end: every
\* step keeps the session and keeps the exchanges it holds as a prefix of its
\* history.
C15_AppendOnlyHistory ==
    [][\A sid \in DOMAIN conversations :
          /\ sid \in DOMAIN conversations'
          /\ Len(conversations'[sid]) >= Len(conversations[sid])
          /\ SubSeq(conversations'[sid], 1, Len(conversations[sid]))
               = conversations[sid]]_vars

\* the exchanges in the session's in-memory history
HistoryLen(sid) == IF sid \in DOMAIN conversations THEN Len(conversations[sid]) ELSE 0

\* C16: after every chat call of a sequence of chat calls on a session, calls
\* whose processing raised inside included, the session's message_count equals
\* the length of its history.
C16_TurnCountIsHistoryLength ==
    last.op = "chat_message" => MessageCount(last.sid) = HistoryLen(last.sid)

\* the threads inside the try block of _load_model for the name
Loaders(n) == {t \in Threads : req[t] = n /\ pc[t] \in LoadingPcs}

\* C17: in every reachable state at most one thread is executing the load
\* procedure of a given capability.
C17_LoadMutualExclusion ==
    \A n \in ModelNames : Cardinality(Loaders(n)) <= 1

\* C17's case: one thread is loading a capability while another thread that
\* asked for the same capability stands at the lock
C17_Witness ==
    \E t, u \in Threads :
        /\ t # u
        /\ req[t] = req[u]
        /\ pc[t] \in LoadingPcs
        /\ pc[u] = "acquire"

\* C18: a thread that has to load capability B never waits for another
\* thread's load of a different capability A: whenever a thread stands at the
\* lock while its holder is executing a load, that load is of the same
\* capability.
C18_ParallelLoads ==
    \A t \in Threads :
        (pc[t] = "acquire" /\ loading_lock # NoThread /\ pc[loading_lock] \in LoadingPcs)
        => req[loading_lock] = req[t]

\* C19: a get_model call returns only what a completed load has published: a
\* thread about to return finds the name in the loaded set with no load of it
\* running, and an instance a call returned is the one stored for a loaded
\* name, never one a running load has stored provisionally.
C19_NoHalfInitialized ==
    \A t \in Threads :
        /\ pc[t] = "get_return"
           => /\ req[t] \in loaded_models
              /\ Loaders(req[t]) = {}
        /\ (pc[t] = "idle" /\ ret[t] \in Instances)
           => /\ req[t] \in loaded_models
              /\ ret[t] = models[req[t]]

\* C19's case: a thread got the mock vision model from get_model while the
\* other thread's load of vision had stored the primary model before
C19_Witness ==
    \E t, u \in Threads :
        /\ t # u
        /\ req[t] = "vision" /\ req[u] = "vision"
        /\ issued[t] = "Loading"
        /\ pc[t] = "idle" /\ ret[t] = "mock"
        /\ pc[u] = "idle" /\ ret[u] = "mock"

\* C20: when the toxicity model classifies the message TOXIC above 0.7, the
\* response is the fixed refusal, the generator is neither loaded nor called in
\* that turn, and the message with the refusal is appended to the session's
\* history.
C20_BlockedChatTurn ==
    (last.op = "chat_message" /\ last.classified.label = "TOXIC"
        /\ last.classified.score > 7)
    => /\ last.response = Refusal
       /\ ~\E e \in Events(last.trace) : e[2] = "generator"
       /\ HistoryLen(last.sid) = last.pre_len + 1
       /\ conversations[last.sid][last.pre_len + 1]
            = [message |-> last.msg, response |-> Refusal]

\* C20's case: a message at 0.8 was refused and stored after an earlier turn
C20_Witness ==
    /\ last.op = "chat_message"
    /\ last.classified = Cls("TOXIC", 8)
    /\ last.response = Refusal
    /\ last.pre_len = 1
    /\ HistoryLen(last.sid) = 2

\* C21: when the summarizer's load fails or its call raises in the
\* summarize_conversation of a chat request, summarize_conversation returns
\* None, the session's summary stays as it was, and the chat request completes
\* successfully.
C21_SummarizeNeverPropagates ==
    [][(last'.op = "chat_message" /\ last'.summarizer_failed)
       => /\ last'.summary = PyNone
          /\ last'.status = "ok"
          /\ sessions'[last'.sid].context_summary =
                (IF last'.sid \in DOMAIN sessions
                 THEN sessions[last'.sid].context_summary ELSE "")]_vars

\* C22: in generate_safe_content the safety check of the generated text comes
\* before its sentiment: a run that ends in the output rejection has neither
\* loaded nor called the sentiment model, and whenever the sentiment model was
\* loaded or called the toxicity model had already been called twice (when it
\* was called at all).
C22_OutputCheckBeforeSentiment ==
    last.op = "generate_content" =>
        /\ last.result.error = OutputRejection
           => ~\E e \in Events(last.trace) : e[2] = "sentiment"
        /\ \A i \in 1..Len(last.trace) :
              (last.trace[i][2] = "sentiment"
                  /\ <<"call", "toxicity">> \in Events(last.trace))
              => CountEvents(SubSeq(last.trace, 1, i - 1), <<"call", "toxicity">>) = 2

\* C23: in analyze_image_with_context the sentiment and the zero-shot
\* classification are independent: with a text context and no model raising
\* when called, the zero-shot model is asked for whether or not the sentiment
\* model is available, and the analysis succeeds, a missing signal being left
\* out of the result.
C23_IndependentSignals ==
    (last.op = "analyze_image_with_context" /\ last.context.len > 0
        /\ \A f \in last.faults : f[1] # "call")
    => /\ \E e \in Events(last.trace) : e[2] = "zero_shot"
       /\ last.status = "ok"

\* the models whose call raised in the request handled last
LastInvokeRaised ==
    IF last.op \in {"chat_message", "generate_content", "summarize"}
    THEN last.invoke_raised
    ELSE IF last.op \in {"analyze_image_with_context", "analyze_image"}
    THEN {n \in KnownModels : <<"call", n>> \in Events(last.trace) \cap last.faults}
    ELSE {}

\* the loads and calls of the request handled last
LastTrace == IF last.op \in {"none", "get_conversation", "model_status"}
             THEN <<>> ELSE last.trace

\* C24: a loaded model raising when a pipeline calls it leaves the registry
\* alone: after the request the model is still loaded with the instance it
\* had, and the requests after it get that instance without loading the model
\* again.
C24_InvokeFailureRequestScoped ==
    [][/\ \A n \in LastInvokeRaised' :
             /\ n \in loaded_models'
             /\ models'[n] \in Instances
             /\ n \in loaded_models => models'[n] = models[n]
       /\ \A n \in LastInvokeRaised :
             /\ n \in loaded_models'
             /\ models'[n] = models[n]
             /\ <<"load", n>> \notin Events(LastTrace')
             /\ <<"load_failed", n>> \notin Events(LastTrace')]_vars

\* C24's case: the generator, loaded by an earlier request, raised when chat
\* called it, and is still loaded
C24_Witness ==
    /\ last.op = "chat_message"
    /\ "generator" \in last.invoke_raised
    /\ <<"load", "generator">> \notin Events(last.trace)
    /\ "generator" \in loaded_models
    /\ models["generator"] = "inst"

\* C25: every name in the loaded set has an instance in the model map,
\* whatever name was passed to get_model, and get_model never returns None
\* for a name in the loaded set.
C25_LoadedSetInvariant ==
    /\ \A n \in loaded_models : DictGet(models, n) \in Instances
    /\ \A t \in Threads :
          (pc[t] = "idle" /\ ret[t] # "nothing" /\ req[t] \in loaded_models)
          => ret[t] # PyNone

\* C26: the loading lock is held only by a thread inside the with block of
\* _load_model, a load that raises releasing it too, and under fair
\* scheduling every get_model call that waits for the lock eventually returns
\* or raises.
C26_NoDeadlockAfterFailedLoad ==
    /\ [](loading_lock # NoThread
            => pc[loading_lock] \in LoadingPcs \cup {"recheck"})
    /\ \A t \in Threads :
          (pc[t] = "acquire") ~> (pc[t] = "idle" /\ ret[t] # "nothing")

\* C26's case: a thread asked for the generator while the other thread was
\* loading it, that load raised, and the thread then took the lock, loaded
\* and was raised to in its turn
C26_Witness ==
    \E t, u \in Threads :
        /\ t # u
        /\ req[t] = "generator" /\ req[u] = "generator"
        /\ issued[t] = "Loading"
        /\ loadCount["generator"] = 2
        /\ pc[t] = "idle" /\ ret[t] = "raise"
        /\ pc[u] = "idle" /\ ret[u] = "raise"
        /\ loading_lock = NoThread

\* C27: whatever loads run meanwhile, the health check reports a capability
\* as loaded only if it was Ready when its entry was read, never one that was
\* still Loading.
C27_HealthSnapshotConsistency ==
    health.test_results \subseteq health.ready

\* C28: the health check and the model status read never load a model: each
\* of their steps leaves the model map, the loaded set, the load counts and
\* the lock as they are, so every capability stays in the state it was in and
\* one that was never asked for stays Unloaded.
C28_ReadsSideEffectFree ==
    [][(health' # health \/ last' # last)
       => /\ UNCHANGED <<models, loaded_models, loadCount, loading_lock, pc>>
          /\ \A n \in ModelNames : CapState(n)' = CapState(n)]_vars

\* C28's case: a health check and a status read have completed on a manager
\* no capability of which was ever asked for, and all are Unloaded
C28_Witness ==
    /\ health.pc = "done"
    /\ health.status = "unhealthy"
    /\ last.op = "model_status"
    /\ last.models_count = 0
    /\ calls = 0
    /\ \A n \in ModelNames : CapState(n) = "Unloaded" /\ loadCount[n] = 0

\* a step of chat raised in the request handled last: the load of one of its
\* models failed, or one of them raised when called
ChatStepRaised ==
    \E n \in {"sentiment", "toxicity", "generator"} :
        \/ <<"load_failed", n>> \in Events(last.trace)
        \/ n \in last.invoke_raised

\* C29: chat returns a result whatever its models do: it answers with its
\* error message exactly when a load or a call raised, then with the default
\* sentiment NEUTRAL 0.5 and the default toxicity NON_TOXIC 0.1 and without
\* touching the histories; otherwise with the refusal, the generated text or
\* the echo.
C29_ChatNeverRaises ==
    [][(last'.op = "chat_message")
       => /\ last'.error <=> ChatStepRaised'
          /\ last'.error
             => /\ last'.response.kind = "error"
                /\ last'.sentiment = Cls("NEUTRAL", 5)
                /\ last'.toxicity = Cls("NON_TOXIC", 1)
                /\ conversations' = conversations
          /\ ~last'.error
             => last'.response.kind \in {"refusal", "generated", "echo"}]_vars

\* C29's case: the generator raised when called in the second turn of a
\* session, chat answered with its error message and the one stored turn stayed
C29_Witness ==
    /\ last.op = "chat_message"
    /\ last.error
    /\ "generator" \in last.invoke_raised
    /\ last.response.kind = "error"
    /\ last.pre_len = 1
    /\ HistoryLen(last.sid) = 1

====
